---------------------------- MODULE Spec2Model ----------------------------
(***************************************************************************)
(* The glutin backend of gluim, src/src/backend/glutin/mod.rs: the Display *)
(* handle, its constructors, rebuild(), draw(), the accessors it forwards  *)
(* to its Context, and the DisplayCreationError conversions.               *)
(*                                                                         *)
(* A state holds every Display, Context, backend and Frame built so far    *)
(* and the most recent call with its arguments and its return value.       *)
(* Context (context::Context), the Backend capability and Frame are       *)
(* crate code outside this file; the parts of them used here follow        *)
(* spec.md and are marked so where they are defined.                       *)
(***************************************************************************)
EXTENDS Integers, Sequences, FiniteSets, TLC

(* The bound of the model: a run makes at most MaxCalls calls that build a  *)
(* Display (a constructor, clone), issue a Frame (draw) or swap the buffers *)
(* directly (swap_buffers).  Every other call is unbounded.                 *)
MaxCalls == 3

DisplayIds == 1..MaxCalls
ContextIds == 1..MaxCalls
FrameIds == 1..MaxCalls

(* NullBacked::get_framebuffer_dimensions. *)
NullBackedDimensions == <<800, 600>>

(* Sizes a backend may report: NullBacked's and the spec's resized window. *)
Dimensions == {NullBackedDimensions, <<1024, 768>>}

(* debug::DebugCallbackBehavior and its Default. *)
DebugCallbackBehavior == {"Ignore", "DebugMessageOnError"}
DefaultDebug == "DebugMessageOnError"

(* Symbols a caller may ask get_proc_address for. *)
Symbols == {"glClear"}

NullPtr == "null"

(* The errors of construction: glutin::CreationError and IncompatibleOpenGl, *)
(* each with the text its description() returns.                             *)
CreationErrors ==
    {[kind |-> "CreationError", description |-> s] :
        s \in {"NoBackendAvailable"}}
IncompatibleOpenGlErrors ==
    {[kind |-> "IncompatibleOpenGl", description |-> s] :
        s \in {"OpenGL implementation too old"}}

VARIABLES
    displays,      \* d -> the Display struct and whether the handle is live
    contexts,      \* c -> the Rc<Context> allocation: strong count, flags
    backends,      \* c -> the backend owned by Context c and the calls it got
    frames,        \* f -> the Frame: state, context, captured dimensions
    latest_frame,  \* d -> the Frame most recently issued by Display d, or 0
    direct_swaps,  \* c -> swap_buffers calls made through Display's Deref
    last_call      \* the most recent call, its arguments and return value

vars == <<displays, contexts, backends, frames, latest_frame, direct_swaps,
          last_call>>

NoDisplay == [state |-> "none", context |-> 0,
              last_framebuffer_dimensions |-> NullBackedDimensions]
NoContext == [state |-> "none", strong_count |-> 0]
NoBackend == [instance |-> 0, dimensions |-> NullBackedDimensions,
              swap_buffers_calls |-> 0, resize_calls |-> <<>>]
NoFrame == [state |-> "none", context |-> 0,
            dimensions |-> NullBackedDimensions]

DroppedDisplay == [NoDisplay EXCEPT !.state = "dropped"]

Ok(v) == [ok |-> TRUE, value |-> v]
Err(e) == [ok |-> FALSE, err |-> e]
Unit == "()"

Init ==
    /\ displays = [d \in DisplayIds |-> NoDisplay]
    /\ contexts = [c \in ContextIds |-> NoContext]
    /\ backends = [c \in ContextIds |-> NoBackend]
    /\ frames = [f \in FrameIds |-> NoFrame]
    /\ latest_frame = [d \in DisplayIds |-> 0]
    /\ direct_swaps = [c \in ContextIds |-> 0]
    /\ last_call = [op |-> "none"]

Min(S) == CHOOSE x \in S : \A y \in S : x <= y

FreeDisplays == {d \in DisplayIds : displays[d].state = "none"}
FreeContexts == {c \in ContextIds : contexts[c].state = "none"}
FreeFrames == {f \in FrameIds : frames[f].state = "none"}
LiveDisplays == {d \in DisplayIds : displays[d].state = "live"}
ActiveFrames == {f \in FrameIds : frames[f].state = "Active"}

RECURSIVE Sum(_, _)
Sum(f, S) ==
    IF S = {} THEN 0
    ELSE LET x == CHOOSE y \in S : TRUE IN f[x] + Sum(f, S \ {x})

(* The bounded calls made so far. *)
CallsMade ==
    Cardinality(DisplayIds \ FreeDisplays)
        + Cardinality(FrameIds \ FreeFrames)
        + Sum(direct_swaps, ContextIds)

(* Rc<Context>::clone: one more strong reference to the same allocation. *)
RcClone(ctxs, c) ==
    [ctxs EXCEPT ![c].strong_count = @ + 1]

(* Dropping an Rc<Context>: the Context is destroyed with the last one. *)
RcDrop(ctxs, c) ==
    IF ctxs[c].strong_count = 1
    THEN [ctxs EXCEPT ![c].strong_count = 0, ![c].state = "destroyed"]
    ELSE [ctxs EXCEPT ![c].strong_count = @ - 1]


(***************************************************************************)
(* DisplayCreationError and the conversions into it.                       *)
(***************************************************************************)

(* impl From<glutin::CreationError> for DisplayCreationError *)
FromCreationError(err) ==
    [variant |-> "GlutinCreationError", err |-> err]

(* impl From<IncompatibleOpenGl> for DisplayCreationError *)
FromIncompatibleOpenGl(err) ==
    [variant |-> "IncompatibleOpenGl", err |-> err]

(* From::from, chosen by the type of its argument. *)
From(err) ==
    IF err.kind = "CreationError"
    THEN FromCreationError(err)
    ELSE FromIncompatibleOpenGl(err)

(* Error::description of the wrapped errors: the text they carry. *)
InnerDescription(err) == err.description

(* impl Error for DisplayCreationError: description() *)
description(e) ==
    CASE e.variant = "GlutinCreationError" -> InnerDescription(e.err)
      [] e.variant = "IncompatibleOpenGl" -> InnerDescription(e.err)

Some(v) == [some |-> TRUE, value |-> v]
None == [some |-> FALSE]

(* cause() left at the Error trait's default. *)
cause_default(e) == None

(* impl Error for DisplayCreationError: cause() *)
cause(e) ==
    CASE e.variant = "GlutinCreationError" -> Some(e.err)
      [] e.variant = "IncompatibleOpenGl" -> Some(e.err)

(* Result::map_err(From::from), as Display::new applies it. *)
MapErrFrom(r) ==
    IF r.ok THEN r ELSE Err(From(r.err))

(***************************************************************************)
(* NullBacked, the backend new_inner installs.                             *)
(***************************************************************************)

NullBacked == [NoBackend EXCEPT !.instance = 1]

NullBacked_swap_buffers == Ok(Unit)

NullBacked_get_proc_address(symbol) == NullPtr

NullBacked_is_current == TRUE

(***************************************************************************)
(* context::Context, after spec.md 4.1.                                    *)
(***************************************************************************)

(* Context::new(backend, checked, debug): the outcomes it may have.  The   *)
(* compatibility pass runs only when checked; compatible tells whether the *)
(* backend offers every required feature.                                  *)
ContextNew(checked, compatible) ==
    IF checked /\ ~compatible
    THEN {Err(e) : e \in IncompatibleOpenGlErrors}
    ELSE {Ok(Unit)}

(* Context::get_framebuffer_dimensions: forwarded to the backend. *)
Context_get_framebuffer_dimensions(c) == backends[c].dimensions

(* Context::swap_buffers: forwarded to the backend, which counts the call. *)
Context_swap_buffers(bs, c) ==
    [bs EXCEPT ![c].swap_buffers_calls = @ + 1]

(* Frame::new(context, dimensions) *)
FrameNew(c, dimensions) ==
    [state |-> "Active", context |-> c, dimensions |-> dimensions]

(***************************************************************************)
(* Display: construction.                                                  *)
(***************************************************************************)

ConstructionResults ==
    {Ok(d) : d \in DisplayIds} \cup {Err(e) : e \in IncompatibleOpenGlErrors}

NewResults ==
    {Ok(d) : d \in DisplayIds}
        \cup {Err(From(e)) : e \in IncompatibleOpenGlErrors}

new_inner(debug, checked, compatible, ret) ==
    LET glutin_backend == NullBacked
        framebuffer_dimensions == glutin_backend.dimensions
    IN  /\ \E context \in ContextNew(checked, compatible) :
            IF context.ok
            THEN /\ CallsMade < MaxCalls
                 /\ LET d == Min(FreeDisplays)
                        c == Min(FreeContexts)
                    IN  /\ ret = Ok(d)
                        /\ contexts' = [contexts EXCEPT ![c] =
                                [state |-> "alive", strong_count |-> 1]]
                        /\ backends' = [backends EXCEPT ![c] = glutin_backend]
                        /\ displays' = [displays EXCEPT ![d] =
                                [state |-> "live", context |-> c,
                                 last_framebuffer_dimensions |->
                                     framebuffer_dimensions]]
            ELSE /\ ret = Err(context.err)
                 /\ UNCHANGED <<displays, contexts, backends>>
        /\ UNCHANGED <<frames, latest_frame, direct_swaps>>

(* with_debug passing checked = false. *)
with_debug_unchecked(debug, compatible, ret) ==
    new_inner(debug, FALSE, compatible, ret)

with_debug(debug, compatible, ret) ==
    new_inner(debug, TRUE, compatible, ret)

from_gl_window(compatible, ret) ==
    with_debug(DefaultDebug, compatible, ret)

(* unchecked_with_debug passing checked = true. *)
unchecked_with_debug_checked(debug, compatible, ret) ==
    new_inner(debug, TRUE, compatible, ret)

unchecked_with_debug(debug, compatible, ret) ==
    new_inner(debug, FALSE, compatible, ret)

unchecked(compatible, ret) ==
    unchecked_with_debug(DefaultDebug, compatible, ret)

new(compatible, ret) ==
    \E r \in ConstructionResults :
        /\ ret = MapErrFrom(r)
        /\ from_gl_window(compatible, r)

(***************************************************************************)
(* Display: rebuild, draw, Clone, Drop and the forwarded accessors.        *)
(***************************************************************************)

(* rebuild refreshing the cached dimensions from the backend. *)
rebuild_refreshing(d, ret) ==
    /\ displays[d].state = "live"
    /\ ret = Ok(Unit)
    /\ displays' = [displays EXCEPT ![d].last_framebuffer_dimensions =
            Context_get_framebuffer_dimensions(displays[d].context)]
    /\ UNCHANGED <<contexts, backends, frames, latest_frame, direct_swaps>>

rebuild(d, ret) ==
    /\ displays[d].state = "live"
    /\ ret = Ok(Unit)
    /\ UNCHANGED <<displays, contexts, backends, frames, latest_frame,
                   direct_swaps>>

(* draw handing the Frame the cached dimensions. *)
draw_cached(d, ret) ==
    /\ displays[d].state = "live"
    /\ CallsMade < MaxCalls
    /\ LET c == displays[d].context
           wh == displays[d].last_framebuffer_dimensions
           f == Min(FreeFrames)
       IN  /\ frames' = [frames EXCEPT ![f] = FrameNew(c, wh)]
           /\ contexts' = RcClone(contexts, c)
           /\ latest_frame' = [latest_frame EXCEPT ![d] = f]
           /\ ret = f
    /\ UNCHANGED <<displays, backends, direct_swaps>>

(* draw swapping the buffers itself. *)
draw_swapping(d, ret) ==
    /\ displays[d].state = "live"
    /\ CallsMade < MaxCalls
    /\ LET c == displays[d].context
           wh == Context_get_framebuffer_dimensions(c)
           f == Min(FreeFrames)
       IN  /\ frames' = [frames EXCEPT ![f] = FrameNew(c, wh)]
           /\ contexts' = RcClone(contexts, c)
           /\ backends' = Context_swap_buffers(backends, c)
           /\ latest_frame' = [latest_frame EXCEPT ![d] = f]
           /\ ret = f
    /\ UNCHANGED <<displays, direct_swaps>>

(* draw handing the Frame its own Rc without cloning it. *)
draw_moving(d, ret) ==
    /\ displays[d].state = "live"
    /\ CallsMade < MaxCalls
    /\ LET c == displays[d].context
           wh == Context_get_framebuffer_dimensions(c)
           f == Min(FreeFrames)
       IN  /\ frames' = [frames EXCEPT ![f] = FrameNew(c, wh)]
           /\ latest_frame' = [latest_frame EXCEPT ![d] = f]
           /\ ret = f
    /\ UNCHANGED <<displays, contexts, backends, direct_swaps>>

draw(d, ret) ==
    /\ displays[d].state = "live"
    /\ CallsMade < MaxCalls
    /\ LET c == displays[d].context
           wh == Context_get_framebuffer_dimensions(c)
           f == Min(FreeFrames)
       IN  /\ frames' = [frames EXCEPT ![f] = FrameNew(c, wh)]
           /\ contexts' = RcClone(contexts, c)
           /\ latest_frame' = [latest_frame EXCEPT ![d] = f]
           /\ ret = f
    /\ UNCHANGED <<displays, backends, direct_swaps>>

(* #[derive(Clone)]: the Rc is cloned, the Cell's value is copied. *)
clone(d, ret) ==
    /\ displays[d].state = "live"
    /\ CallsMade < MaxCalls
    /\ LET n == Min(FreeDisplays)
       IN  /\ displays' = [displays EXCEPT ![n] =
                   [state |-> "live", context |-> displays[d].context,
                    last_framebuffer_dimensions |->
                        displays[d].last_framebuffer_dimensions]]
           /\ contexts' = RcClone(contexts, displays[d].context)
           /\ ret = n
    /\ UNCHANGED <<backends, frames, latest_frame, direct_swaps>>

(* A Display goes out of scope: its Rc<Context> is dropped. *)
drop(d) ==
    /\ displays[d].state = "live"
    /\ displays' = [displays EXCEPT ![d] = DroppedDisplay]
    /\ contexts' = RcDrop(contexts, displays[d].context)
    /\ latest_frame' = [latest_frame EXCEPT ![d] = 0]
    /\ UNCHANGED <<backends, frames, direct_swaps>>

(* impl Deref for Display: the Context the accessors are forwarded to. *)
deref(d) == displays[d].context

get_framebuffer_dimensions(d, ret) ==
    /\ displays[d].state = "live"
    /\ ret = Context_get_framebuffer_dimensions(deref(d))
    /\ UNCHANGED <<displays, contexts, backends, frames, latest_frame,
                   direct_swaps>>

swap_buffers(d, ret) ==
    /\ displays[d].state = "live"
    /\ CallsMade < MaxCalls
    /\ backends' = Context_swap_buffers(backends, deref(d))
    /\ direct_swaps' = [direct_swaps EXCEPT ![deref(d)] = @ + 1]
    /\ ret = NullBacked_swap_buffers
    /\ UNCHANGED <<displays, contexts, frames, latest_frame>>

is_current(d, ret) ==
    /\ displays[d].state = "live"
    /\ ret = NullBacked_is_current
    /\ UNCHANGED <<displays, contexts, backends, frames, latest_frame,
                   direct_swaps>>

get_proc_address(d, symbol, ret) ==
    /\ displays[d].state = "live"
    /\ ret = NullBacked_get_proc_address(symbol)
    /\ UNCHANGED <<displays, contexts, backends, frames, latest_frame,
                   direct_swaps>>

(* impl Facade for Display: a borrow of the Rc, no new reference. *)
get_context(d, ret) ==
    /\ displays[d].state = "live"
    /\ ret = displays[d].context
    /\ UNCHANGED <<displays, contexts, backends, frames, latest_frame,
                   direct_swaps>>

(***************************************************************************)
(* Frame and the backend's surface, after spec.md 3 and 4.3.               *)
(***************************************************************************)

(* The Frame's scoped end of use: swap_buffers on its Context, then the    *)
(* Frame's Rc<Context> is dropped.                                         *)
frame_release(f, ret) ==
    /\ frames[f].state = "Active"
    /\ backends' = Context_swap_buffers(backends, frames[f].context)
    /\ frames' = [frames EXCEPT ![f].state = "Released"]
    /\ contexts' = RcDrop(contexts, frames[f].context)
    /\ ret = NullBacked_swap_buffers
    /\ UNCHANGED <<displays, latest_frame, direct_swaps>>

(* The surface behind a live Context changes size: from then on the        *)
(* backend reports the new dimensions.  NullBacked itself reports a fixed  *)
(* size; this is the Backend capability it stands in for (spec.md 2, 8).   *)
backend_resized(c, dimensions) ==
    /\ contexts[c].state = "alive"
    /\ dimensions # backends[c].dimensions
    /\ backends' = [backends EXCEPT ![c].dimensions = dimensions]
    /\ UNCHANGED <<displays, contexts, frames, latest_frame, direct_swaps>>

(***************************************************************************)
(* The calls a program can make, each recorded in last_call.               *)
(***************************************************************************)

(* args holds the arguments the properties below read; the calls that      *)
(* only read the Context are recorded with their return value alone.       *)
Call(op, args, ret) == [op |-> op, args |-> args, ret |-> ret]
NoArgs == <<>>

SwapResults == {Ok(Unit)}
UnitResults == {Ok(Unit)}

CallNew ==
    \E compatible \in BOOLEAN, ret \in NewResults :
        /\ new(compatible, ret)
        /\ last_call' = Call("new", [compatible |-> compatible], ret)

CallFromGlWindow ==
    \E compatible \in BOOLEAN, ret \in ConstructionResults :
        /\ from_gl_window(compatible, ret)
        /\ last_call' = Call("from_gl_window", [compatible |-> compatible], ret)

CallWithDebug ==
    \E debug \in DebugCallbackBehavior, compatible \in BOOLEAN,
       ret \in ConstructionResults :
        /\ with_debug(debug, compatible, ret)
        /\ last_call' = Call("with_debug",
                             [debug |-> debug, compatible |-> compatible], ret)

CallUnchecked ==
    \E compatible \in BOOLEAN, ret \in ConstructionResults :
        /\ unchecked(compatible, ret)
        /\ last_call' = Call("unchecked", [compatible |-> compatible], ret)

CallUncheckedWithDebug ==
    \E debug \in DebugCallbackBehavior, compatible \in BOOLEAN,
       ret \in ConstructionResults :
        /\ unchecked_with_debug(debug, compatible, ret)
        /\ last_call' = Call("unchecked_with_debug",
                             [debug |-> debug, compatible |-> compatible], ret)

CallRebuild ==
    \E d \in DisplayIds, ret \in UnitResults :
        /\ rebuild(d, ret)
        /\ last_call' = Call("rebuild", [display |-> d], ret)

CallDraw ==
    \E d \in DisplayIds, ret \in FrameIds :
        /\ draw(d, ret)
        /\ last_call' = Call("draw", [display |-> d], ret)

CallClone ==
    \E d \in DisplayIds, ret \in DisplayIds :
        /\ clone(d, ret)
        /\ last_call' = Call("clone", [display |-> d], ret)

CallDrop ==
    \E d \in DisplayIds :
        /\ drop(d)
        /\ last_call' = Call("drop", [display |-> d], Unit)

CallGetFramebufferDimensions ==
    \E d \in DisplayIds, ret \in Dimensions :
        /\ get_framebuffer_dimensions(d, ret)
        /\ last_call' = Call("get_framebuffer_dimensions", NoArgs, ret)

CallSwapBuffers ==
    \E d \in DisplayIds, ret \in SwapResults :
        /\ swap_buffers(d, ret)
        /\ last_call' = Call("swap_buffers", NoArgs, ret)

CallIsCurrent ==
    \E d \in DisplayIds, ret \in BOOLEAN :
        /\ is_current(d, ret)
        /\ last_call' = Call("is_current", NoArgs, ret)

CallGetProcAddress ==
    \E d \in DisplayIds, symbol \in Symbols, ret \in {NullPtr} :
        /\ get_proc_address(d, symbol, ret)
        /\ last_call' = Call("get_proc_address", NoArgs, ret)

CallGetContext ==
    \E d \in DisplayIds, ret \in ContextIds :
        /\ get_context(d, ret)
        /\ last_call' = Call("get_context", NoArgs, ret)

FrameRelease ==
    \E f \in FrameIds, ret \in SwapResults :
        /\ frame_release(f, ret)
        /\ last_call' = Call("frame_release", [frame |-> f], ret)

BackendResized ==
    \E c \in ContextIds, dimensions \in Dimensions :
        /\ backend_resized(c, dimensions)
        /\ last_call' = Call("backend_resized",
                             [context |-> c, dimensions |-> dimensions], Unit)

ConvertError ==
    \E err \in CreationErrors \cup IncompatibleOpenGlErrors :
        /\ last_call' = Call("from", [err |-> err], From(err))
        /\ UNCHANGED <<displays, contexts, backends, frames, latest_frame,
                       direct_swaps>>

Next ==
    \/ CallNew
    \/ CallFromGlWindow
    \/ CallWithDebug
    \/ CallUnchecked
    \/ CallUncheckedWithDebug
    \/ CallRebuild
    \/ CallDraw
    \/ CallClone
    \/ CallDrop
    \/ CallGetFramebufferDimensions
    \/ CallSwapBuffers
    \/ CallIsCurrent
    \/ CallGetProcAddress
    \/ CallGetContext
    \/ FrameRelease
    \/ BackendResized
    \/ ConvertError

Spec == Init /\ [][Next]_vars

(***************************************************************************)
(* Properties.                                                             *)
(***************************************************************************)

DisplaysOf(c) == {d \in LiveDisplays : displays[d].context = c}
ActiveFramesOf(c) == {f \in ActiveFrames : frames[f].context = c}
ReleasedFramesOf(c) ==
    {f \in FrameIds : frames[f].state = "Released" /\ frames[f].context = c}

(* The size Display d saw last: its latest Frame's, or construction's. *)
PreviouslySeen(d) ==
    IF latest_frame[d] = 0
    THEN displays[d].last_framebuffer_dimensions
    ELSE frames[latest_frame[d]].dimensions

C3_OneSwapPerReleasedFrame ==
    /\ [](\A c \in ContextIds :
            backends[c].swap_buffers_calls - direct_swaps[c]
                = Cardinality(ReleasedFramesOf(c)))
    /\ [][\A f \in FrameIds :
            /\ frames[f].state = "Released" => frames'[f] = frames[f]
            /\ frames[f].state = "Active"
               => \/ frames'[f] = frames[f]
                  \/ /\ frames'[f].state = "Released"
                     /\ frames'[f].context = frames[f].context
                     /\ \A c \in ContextIds :
                            backends'[c].swap_buffers_calls =
                                backends[c].swap_buffers_calls
                                    + (IF c = frames[f].context THEN 1 ELSE 0)
          ]_vars

(* A Frame was released without any drawing, another is still Active, and *)
(* no swap_buffers call was made directly.                                 *)
C3_Witness ==
    \E f, g \in FrameIds :
        /\ frames[f].state = "Released"
        /\ frames[g].state = "Active"
        /\ backends[frames[f].context].swap_buffers_calls = 1
        /\ direct_swaps[frames[f].context] = 0

(* C4: draw() on a live Display can always return (within the bound on     *)
(* calls); it returns a Frame, Active, whose dimensions are those the      *)
(* backend reports at the call; when the backend reports (800,600) the     *)
(* Frame reports (800,600) and last_framebuffer_dimensions reads (800,600).*)
C4_DrawCapturesBackendDimensions ==
    /\ \A d \in LiveDisplays :
          CallsMade < MaxCalls => ENABLED (\E ret \in FrameIds : draw(d, ret))
    /\ last_call.op = "draw"
       => LET d == last_call.args.display
              f == last_call.ret
              c == displays[d].context
          IN  /\ f \in FrameIds
              /\ frames[f].state = "Active"
              /\ frames[f].context = c
              /\ frames[f].dimensions = backends[c].dimensions
              /\ backends[c].dimensions = <<800, 600>>
                 => /\ frames[f].dimensions = <<800, 600>>
                    /\ displays[d].last_framebuffer_dimensions = <<800, 600>>

(* draw() has just returned a Frame for a backend that no longer reports   *)
(* the size it reported at construction.                                   *)
C4_Witness ==
    /\ last_call.op = "draw"
    /\ frames[last_call.ret].dimensions = <<1024, 768>>

C6_CheckedFailsIffIncompatible ==
    [][last_call'.op \in {"new", "from_gl_window", "with_debug"}
        => LET r == last_call'.ret
           IN  /\ r.ok <=> last_call'.args.compatible
               /\ ~r.ok
                  => /\ IF last_call'.op = "new"
                        THEN /\ r.err.variant = "IncompatibleOpenGl"
                             /\ r.err.err.kind = "IncompatibleOpenGl"
                        ELSE r.err.kind = "IncompatibleOpenGl"
                     /\ displays' = displays
                     /\ contexts' = contexts
               /\ r.ok
                  => \/ vars' = vars
                     \/ /\ displays[r.value].state = "none"
                        /\ displays'[r.value].state = "live"]_vars

(* Display::new has just failed on a backend lacking a required feature.   *)
C6_Witness ==
    /\ last_call.op = "new"
    /\ ~last_call.args.compatible
    /\ ~last_call.ret.ok

(* C7: a converted error carries the variant of its input's kind, its      *)
(* cause() is present and is the input, and its description() is the       *)
(* input's description.                                                    *)
C7_ConversionLossless ==
    /\ last_call.op = "from"
       => LET err == last_call.args.err
              e == last_call.ret
          IN  /\ e.variant = IF err.kind = "CreationError"
                             THEN "GlutinCreationError"
                             ELSE "IncompatibleOpenGl"
              /\ cause(e) = Some(err)
              /\ description(e) = err.description
    /\ (last_call.op = "new" /\ ~last_call.ret.ok)
       => /\ cause(last_call.ret.err).some
          /\ cause(last_call.ret.err).value \in IncompatibleOpenGlErrors

(* A glutin creation error has just been converted. *)
C7_Witness ==
    /\ last_call.op = "from"
    /\ last_call.args.err.kind = "CreationError"
    /\ last_call.ret.variant = "GlutinCreationError"

(* C8: a successful rebuild() leaves the Display on the same Context, with *)
(* what was created under it, and that Context on a newly built backend.   *)
C8_RebuildReplacesBackend ==
    [][(last_call'.op = "rebuild" /\ last_call'.ret.ok)
        => LET d == last_call'.args.display
               c == displays[d].context
           IN  /\ displays'[d].context = c
               /\ contexts'[c] = contexts[c]
               /\ frames' = frames
               /\ backends'[c].instance # backends[c].instance]_vars

(* C9: the strong count of a Context is the number of live Displays and    *)
(* Active Frames that refer to it; the Context is alive exactly while      *)
(* there is one, so none of them refers to a destroyed Context; and a      *)
(* clone refers to the Context of the Display it was cloned from.          *)
C9_ContextLivesWithItsHolders ==
    /\ \A c \in ContextIds :
          LET holders == Cardinality(DisplaysOf(c))
                            + Cardinality(ActiveFramesOf(c))
          IN  /\ contexts[c].strong_count = holders
              /\ contexts[c].state = "alive" <=> holders > 0
              /\ contexts[c].state = "none" => backends[c].instance = 0
    /\ \A d \in LiveDisplays : contexts[displays[d].context].state = "alive"
    /\ \A f \in ActiveFrames : contexts[frames[f].context].state = "alive"
    /\ last_call.op = "clone"
       => /\ displays[last_call.ret].state = "live"
          /\ displays[last_call.ret].context
                 = displays[last_call.args.display].context

(* Every Display of a Context is gone and the Context is kept alive by an  *)
(* Active Frame alone.                                                     *)
C9_Witness ==
    \E c \in ContextIds :
        /\ contexts[c].state = "alive"
        /\ DisplaysOf(c) = {}
        /\ ActiveFramesOf(c) # {}
        /\ \E d \in DisplayIds : displays[d].state = "dropped"

(* C10: a live Display's last_framebuffer_dimensions changes in no step    *)
(* other than a draw() on that Display.                                    *)
C10_OnlyDrawWritesCache ==
    [][\A d \in DisplayIds :
        (/\ displays[d].state = "live"
         /\ displays'[d].state = "live"
         /\ displays'[d].last_framebuffer_dimensions
                # displays[d].last_framebuffer_dimensions)
        => /\ last_call'.op = "draw"
           /\ last_call'.args.display = d]_vars

(* rebuild() has just returned on a Display whose backend reports another  *)
(* size than the cached one.                                               *)
C10_Witness ==
    /\ last_call.op = "rebuild"
    /\ displays[last_call.args.display].state = "live"
    /\ backends[displays[last_call.args.display].context].dimensions
           # displays[last_call.args.display].last_framebuffer_dimensions

=============================================================================
